---- MODULE Spec2Model ----
(***************************************************************************)
(* Vienna Theatre API (src/main.py): best-effort seeding of the info,      *)
(* owner and event collections at startup, and the read handlers           *)
(* GET /api/info, /api/owners, /api/events, /test and /.                   *)
(*                                                                         *)
(* The document store is shared by every server process and outlives       *)
(* them.  Each store call of ensure_seed_data is one atomic step, so the   *)
(* steps of several processes interleave.  A store call made inside a      *)
(* try block of the source (startup_event, test_database) may raise.       *)
(* Dates are whole days; _id and created_at are drawn from one counter.    *)
(***************************************************************************)
EXTENDS Integers, Sequences, FiniteSets, TLC

VARIABLES
    db,        \* the module-level store handle: "None" or "handle"
    store,     \* [info, owner, event] -> sequence of documents, natural order
    nextId,    \* source of _id and created_at of the next inserted document
    pc,        \* per process: position in startup_event / ensure_seed_data
    idx,       \* per process: position in the for loop over owners / events
    base,      \* per process: base_date (a day) computed at line 107
    snap,      \* per process: the store as it was when the run began
    startups,  \* per process: number of startups begun
    limit,     \* per process: number of startups the deployment gives it
    failedAt,  \* per process: the call of this run that raised, or "none"
    fresh,     \* the deployment began with three empty collections
    noFault,   \* no store call has raised so far
    resp       \* the response in flight to the client, or NoResp

vars == <<db, store, nextId, pc, idx, base, snap, startups, limit,
          failedAt, fresh, noFault, resp>>

------------------------------------------------------------------------------
(* Bounds *)
MaxStartups == 2
MaxRaceStartups == 1
MaxPreEvents == 2
MaxBase == 1
MaxExtra == 11
MaxMsgLen == 51

(* Program constants *)
CollLimit == 10
StrLimit == 50

Procs == {1, 2}
Colls == {"info", "owner", "event"}

------------------------------------------------------------------------------
(* Seed literals of ensure_seed_data *)
InfoSeed == [name |-> "Kabarett & Impro Wien"]

OwnerSeeds == << [name |-> "Lena Leitner"], [name |-> "Max Maurer"] >>

EventTitles == << "Kabarett: Wiener Schmaeh", "Improv: Alles kann, nix muss",
                  "Stand-up: Late Night Laughs" >>

EventOffsets == << 7, 18, 32 >>

EventSeeds(base_date) ==
    [i \in 1..3 |-> [title |-> EventTitles[i], date |-> base_date + EventOffsets[i]]]

------------------------------------------------------------------------------
(* Store helpers *)
Stamp(data, id) ==
    [k \in DOMAIN data \cup {"_id", "created_at"} |->
        IF k = "_id" THEN id ELSE IF k = "created_at" THEN id ELSE data[k]]

create_document(st, coll, data, id) ==
    [st EXCEPT ![coll] = Append(@, Stamp(data, id))]

get_documents(st, coll) == st[coll]

count_documents(st, coll) == Len(st[coll])

\* a handler that forgets doc.pop("_id", None)
PopNothing(doc, key) == doc

Pop(doc, key) == [k \in DOMAIN doc \ {key} |-> doc[k]]

PopAll(docs, key) == [i \in 1..Len(docs) |-> Pop(docs[i], key)]

\* find_one({}, sort=[("created_at", -1)]): the newest document, the earliest
\* in natural order among equally new ones
FindLatest(docs) ==
    LET newest == CHOOSE t \in {docs[i].created_at : i \in 1..Len(docs)} :
                      \A j \in 1..Len(docs) : docs[j].created_at <= t
        first == CHOOSE i \in 1..Len(docs) :
                      /\ docs[i].created_at = newest
                      /\ \A j \in 1..Len(docs) : docs[j].created_at = newest => i <= j
    IN docs[first]

RECURSIVE InsertByDate(_, _)
InsertByDate(e, sorted) ==
    IF sorted = <<>> THEN <<e>>
    ELSE IF sorted[Len(sorted)].date <= e.date THEN Append(sorted, e)
    ELSE Append(InsertByDate(e, SubSeq(sorted, 1, Len(sorted) - 1)), sorted[Len(sorted)])

\* find({}) without .sort("date", 1)
NaturalOrder(docs) == docs

\* find({}).sort("date", 1): ascending by date, stable
RECURSIVE SortByDate(_)
SortByDate(docs) ==
    IF docs = <<>> THEN <<>>
    ELSE InsertByDate(docs[Len(docs)], SortByDate(SubSeq(docs, 1, Len(docs) - 1)))

\* a slice dropped: collections instead of collections[:10]
TakeAll(s, n) == s

Take(s, n) == SubSeq(s, 1, IF Len(s) < n THEN Len(s) ELSE n)

\* db.list_collection_names(): the collections that exist in the database
list_collection_names(st, n) ==
    (IF st.info # <<>> THEN <<"info">> ELSE <<>>) \o
    (IF st.owner # <<>> THEN <<"owner">> ELSE <<>>) \o
    (IF st.event # <<>> THEN <<"event">> ELSE <<>>) \o
    [i \in 1..n |-> "other"]

------------------------------------------------------------------------------
(* Initial states: any handle, environment and previously stored content *)
PreInfo == { <<>>, << [_id |-> -1, name |-> "Altes Theater", created_at |-> 0] >> }

PreOwner == { <<>>, << [_id |-> -2, name |-> "Gast", created_at |-> 0] >> }

PreDates == {10, 40}

PreEventDocs(ds) ==
    [i \in 1..Len(ds) |->
        [_id |-> -(2 + i), title |-> "Gastspiel", date |-> ds[i], created_at |-> 0]]

PreEvent == { PreEventDocs(ds) : ds \in UNION {[1..n -> PreDates] : n \in 0..MaxPreEvents} }

EmptyStore == [info |-> <<>>, owner |-> <<>>, event |-> <<>>]

NoResp == [op |-> "none", status |-> 0, detail |-> "", body |-> <<>>, calls |-> 0]

Start ==
    /\ db \in {"None", "handle"}
    /\ nextId = 1
    /\ pc = [p \in Procs |-> "down"]
    /\ idx = [p \in Procs |-> 0]
    /\ base = [p \in Procs |-> 0]
    /\ snap = [p \in Procs |-> EmptyStore]
    /\ startups = [p \in Procs |-> 0]
    /\ failedAt = [p \in Procs |-> "none"]
    /\ fresh = (store = EmptyStore)
    /\ noFault = TRUE
    /\ resp = NoResp

\* one server process, restarted up to MaxStartups times, on any stored content
Init ==
    /\ store \in [info : PreInfo, owner : PreOwner, event : PreEvent]
    /\ limit = [p \in Procs |-> IF p = 1 THEN MaxStartups ELSE 0]
    /\ Start

\* two server processes started against the same empty store
InitRace ==
    /\ store = EmptyStore
    /\ limit = [p \in Procs |-> MaxRaceStartups]
    /\ Start

------------------------------------------------------------------------------
(* startup_event / ensure_seed_data, one store call per step *)
SeedingPcs == {"info_count", "info_insert", "owner_count", "owner_insert",
               "event_count", "event_insert"}

\* startup_event calls ensure_seed_data, which returns at once without a handle
StartupEvent(p) ==
    /\ pc[p] = "down"
    /\ startups[p] < limit[p]
    /\ startups' = [startups EXCEPT ![p] = @ + 1]
    /\ snap' = [snap EXCEPT ![p] = store]
    /\ failedAt' = [failedAt EXCEPT ![p] = "none"]
    /\ pc' = [pc EXCEPT ![p] = IF db = "None" THEN "ready" ELSE "info_count"]
    /\ UNCHANGED <<db, limit, store, nextId, idx, base, fresh, noFault, resp>>

\* the emptiness test of the info collection dropped
CountInfoNoCheck(p) ==
    /\ pc[p] = "info_count"
    /\ pc' = [pc EXCEPT ![p] = "info_insert"]
    /\ UNCHANGED <<db, limit, store, nextId, idx, base, snap, startups,
                   failedAt, fresh, noFault, resp>>

CountInfo(p) ==
    /\ pc[p] = "info_count"
    /\ pc' = [pc EXCEPT ![p] = IF count_documents(store, "info") = 0
                               THEN "info_insert" ELSE "owner_count"]
    /\ UNCHANGED <<db, limit, store, nextId, idx, base, snap, startups,
                   failedAt, fresh, noFault, resp>>

InsertInfo(p) ==
    /\ pc[p] = "info_insert"
    /\ store' = create_document(store, "info", InfoSeed, nextId)
    /\ nextId' = nextId + 1
    /\ pc' = [pc EXCEPT ![p] = "owner_count"]
    /\ UNCHANGED <<db, limit, idx, base, snap, startups, failedAt, fresh,
                   noFault, resp>>

\* the owner test counting the info collection
CountOwnersWrongCollection(p) ==
    /\ pc[p] = "owner_count"
    /\ IF count_documents(store, "info") = 0
       THEN /\ pc' = [pc EXCEPT ![p] = "owner_insert"]
            /\ idx' = [idx EXCEPT ![p] = 1]
       ELSE /\ pc' = [pc EXCEPT ![p] = "event_count"]
            /\ idx' = idx
    /\ UNCHANGED <<db, limit, store, nextId, base, snap, startups, failedAt,
                   fresh, noFault, resp>>

CountOwners(p) ==
    /\ pc[p] = "owner_count"
    /\ IF count_documents(store, "owner") = 0
       THEN /\ pc' = [pc EXCEPT ![p] = "owner_insert"]
            /\ idx' = [idx EXCEPT ![p] = 1]
       ELSE /\ pc' = [pc EXCEPT ![p] = "event_count"]
            /\ idx' = idx
    /\ UNCHANGED <<db, limit, store, nextId, base, snap, startups, failedAt,
                   fresh, noFault, resp>>

InsertOwner(p) ==
    /\ pc[p] = "owner_insert"
    /\ store' = create_document(store, "owner", OwnerSeeds[idx[p]], nextId)
    /\ nextId' = nextId + 1
    /\ IF idx[p] < Len(OwnerSeeds)
       THEN /\ idx' = [idx EXCEPT ![p] = @ + 1]
            /\ pc' = pc
       ELSE /\ idx' = [idx EXCEPT ![p] = 0]
            /\ pc' = [pc EXCEPT ![p] = "event_count"]
    /\ UNCHANGED <<db, limit, base, snap, startups, failedAt, fresh, noFault,
                   resp>>

\* base_date is today's date at 19:30, computed only when the collection is empty
CountEvents(p) ==
    /\ pc[p] = "event_count"
    /\ IF count_documents(store, "event") = 0
       THEN /\ pc' = [pc EXCEPT ![p] = "event_insert"]
            /\ idx' = [idx EXCEPT ![p] = 1]
            /\ \E today \in 0..MaxBase : base' = [base EXCEPT ![p] = today]
       ELSE /\ pc' = [pc EXCEPT ![p] = "ready"]
            /\ idx' = idx
            /\ base' = base
    /\ UNCHANGED <<db, limit, store, nextId, snap, startups, failedAt, fresh,
                   noFault, resp>>

InsertEvent(p) ==
    /\ pc[p] = "event_insert"
    /\ store' = create_document(store, "event", EventSeeds(base[p])[idx[p]], nextId)
    /\ nextId' = nextId + 1
    /\ IF idx[p] < 3
       THEN /\ idx' = [idx EXCEPT ![p] = @ + 1]
            /\ pc' = pc
       ELSE /\ idx' = [idx EXCEPT ![p] = 0]
            /\ pc' = [pc EXCEPT ![p] = "ready"]
    /\ UNCHANGED <<db, limit, base, snap, startups, failedAt, fresh, noFault,
                   resp>>

\* startup_event without its try/except: the exception ends the process
SeedRaisesUncaught(p) ==
    /\ pc[p] \in SeedingPcs
    /\ pc' = [pc EXCEPT ![p] = "crashed"]
    /\ idx' = [idx EXCEPT ![p] = 0]
    /\ failedAt' = [failedAt EXCEPT ![p] = pc[p]]
    /\ noFault' = FALSE
    /\ UNCHANGED <<db, limit, store, nextId, base, snap, startups, fresh, resp>>

\* a count or insert raises: the call has no effect, the exception leaves
\* ensure_seed_data and startup_event swallows it
SeedRaises(p) ==
    /\ pc[p] \in SeedingPcs
    /\ pc' = [pc EXCEPT ![p] = "ready"]
    /\ idx' = [idx EXCEPT ![p] = 0]
    /\ failedAt' = [failedAt EXCEPT ![p] = pc[p]]
    /\ noFault' = FALSE
    /\ UNCHANGED <<db, limit, store, nextId, base, snap, startups, fresh, resp>>

\* the server process stops; a later startup runs startup_event again
Shutdown(p) ==
    /\ pc[p] = "ready"
    /\ pc' = [pc EXCEPT ![p] = "down"]
    /\ UNCHANGED <<db, limit, store, nextId, idx, base, snap, startups,
                   failedAt, fresh, noFault, resp>>

------------------------------------------------------------------------------
(* Request handlers, served by a process that finished startup *)
Reply(op, status, detail, body, calls) ==
    [op |-> op, status |-> status, detail |-> detail, body |-> body, calls |-> calls]

Serving(p) == pc[p] = "ready" /\ resp = NoResp

Unchanged_but_resp ==
    UNCHANGED <<db, limit, store, nextId, pc, idx, base, snap, startups,
                failedAt, fresh, noFault>>

read_root(p) ==
    /\ Serving(p)
    /\ resp' = Reply("read_root", 200, "", << [message |-> "Vienna Theatre API running"] >>, 0)
    /\ Unchanged_but_resp

\* get_info without its "if not doc" test
get_infoNoNotFound(p) ==
    /\ Serving(p)
    /\ resp' = IF db = "None"
               THEN Reply("get_info", 500, "Database not available", <<>>, 0)
               ELSE IF store.info = <<>>
               THEN Reply("get_info", 200, "", <<>>, 1)
               ELSE Reply("get_info", 200, "", << Pop(FindLatest(store.info), "_id") >>, 1)
    /\ Unchanged_but_resp

get_info(p) ==
    /\ Serving(p)
    /\ resp' = IF db = "None"
               THEN Reply("get_info", 500, "Database not available", <<>>, 0)
               ELSE IF store.info = <<>>
               THEN Reply("get_info", 404, "Info not found", <<>>, 1)
               ELSE Reply("get_info", 200, "", << Pop(FindLatest(store.info), "_id") >>, 1)
    /\ Unchanged_but_resp

get_owners(p) ==
    /\ Serving(p)
    /\ resp' = IF db = "None"
               THEN Reply("get_owners", 500, "Database not available", <<>>, 0)
               ELSE Reply("get_owners", 200, "", PopAll(get_documents(store, "owner"), "_id"), 1)
    /\ Unchanged_but_resp

\* get_events without its "if db is None" test
get_eventsNoGuard(p) ==
    /\ Serving(p)
    /\ resp' = Reply("get_events", 200, "", PopAll(SortByDate(store.event), "_id"), 1)
    /\ Unchanged_but_resp

get_events(p) ==
    /\ Serving(p)
    /\ resp' = IF db = "None"
               THEN Reply("get_events", 500, "Database not available", <<>>, 0)
               ELSE Reply("get_events", 200, "", PopAll(SortByDate(store.event), "_id"), 1)
    /\ Unchanged_but_resp

Message(n) == [i \in 1..n |-> "x"]

Diagnostic(database, err, url, name, status, collections) ==
    [backend |-> "Running",
     database |-> [text |-> database, err |-> err],
     database_url |-> url,
     database_name |-> name,
     connection_status |-> status,
     collections |-> collections]

\* os.getenv, the collections of the database and the outcome of
\* list_collection_names are inputs of the request
test_database(p) ==
    /\ Serving(p)
    /\ \E url \in BOOLEAN, name \in BOOLEAN, n \in {0, MaxExtra},
          raises \in BOOLEAN, len \in {0, MaxMsgLen} :
          resp' = IF db # "None"
                  THEN LET u == IF url THEN "Set" ELSE "Not Set"
                           d == IF name THEN "Set" ELSE "Not Set"
                       IN IF raises
                          THEN Reply("test_database", 200, "",
                                     << Diagnostic("Connected but Error",
                                                   Take(Message(len), StrLimit),
                                                   u, d, "Connected", <<>>) >>, 1)
                          ELSE Reply("test_database", 200, "",
                                     << Diagnostic("Connected & Working", <<>>, u, d,
                                                   "Connected",
                                                   Take(list_collection_names(store, n),
                                                        CollLimit)) >>, 1)
                  ELSE Reply("test_database", 200, "",
                             << Diagnostic("Available but not initialized", <<>>,
                                           "None", "None", "Not Connected", <<>>) >>, 0)
    /\ Unchanged_but_resp

\* the client takes the response
Receive ==
    /\ resp # NoResp
    /\ resp' = NoResp
    /\ Unchanged_but_resp

------------------------------------------------------------------------------
Step(p) ==
    \/ StartupEvent(p)
    \/ CountInfo(p)
    \/ InsertInfo(p)
    \/ CountOwners(p)
    \/ InsertOwner(p)
    \/ CountEvents(p)
    \/ InsertEvent(p)
    \/ SeedRaises(p)
    \/ Shutdown(p)
    \/ read_root(p)
    \/ get_info(p)
    \/ get_owners(p)
    \/ get_events(p)
    \/ test_database(p)

Next == (\E p \in Procs : Step(p)) \/ Receive

Spec == Init /\ [][Next]_vars

SpecRace == InitRace /\ [][Next]_vars

\* a started process runs startup_event to its end: every store call returns
\* or raises
Run(p) ==
    \/ CountInfo(p)
    \/ InsertInfo(p)
    \/ CountOwners(p)
    \/ InsertOwner(p)
    \/ CountEvents(p)
    \/ InsertEvent(p)
    \/ SeedRaises(p)

SpecFair == Spec /\ \A p \in Procs : WF_vars(Run(p))

------------------------------------------------------------------------------
(* Properties *)
Names(docs) == [i \in 1..Len(docs) |-> docs[i].name]

Titles(docs) == [i \in 1..Len(docs) |-> docs[i].title]

Dates(docs) == [i \in 1..Len(docs) |-> docs[i].date]

Counts(st) == << Len(st.info), Len(st.owner), Len(st.event) >>

Occurs(x, s) == Cardinality({i \in 1..Len(s) : s[i] = x})

SameDocs(a, b) ==
    /\ Len(a) = Len(b)
    /\ \A i \in 1..Len(a) : Occurs(a[i], a) = Occurs(a[i], b)

ContentOps == {"get_info", "get_owners", "get_events"}

\* C1: on a store that began empty, with a handle and no store call raising,
\* once startup has completed the info collection holds exactly the default
\* record, the owner collection "Lena Leitner" then "Max Maurer" and the event
\* collection 3 events; GET /api/owners returns the two owners in that order
\* and GET /api/events the three titles in order with dates base+7, +18, +32.
FreshStartupSeedsDefaults ==
    (fresh /\ db = "handle" /\ noFault /\ pc[1] = "ready") =>
        /\ Names(store.info) = << "Kabarett & Impro Wien" >>
        /\ Names(store.owner) = << "Lena Leitner", "Max Maurer" >>
        /\ Len(store.event) = 3
        /\ resp.op = "get_owners" =>
               /\ resp.status = 200
               /\ Names(resp.body) = << "Lena Leitner", "Max Maurer" >>
        /\ resp.op = "get_events" =>
               /\ resp.status = 200
               /\ Titles(resp.body) = << "Kabarett: Wiener Schmaeh",
                                         "Improv: Alles kann, nix muss",
                                         "Stand-up: Late Night Laughs" >>
               /\ Dates(resp.body) = << base[1] + 7, base[1] + 18, base[1] + 32 >>

FreshStartupServed ==
    /\ fresh /\ db = "handle" /\ noFault /\ pc[1] = "ready"
    /\ resp.op = "get_events" /\ resp.status = 200 /\ Len(resp.body) = 3
    /\ Counts(store) = << 1, 2, 3 >>

\* C2: a run of ensure_seed_data leaves every collection that was non-empty
\* when the run began exactly as it was, whatever the other two hold; so a
\* startup against a store holding 1 info, 2 owners and 3 events leaves
\* those counts.
SeedingNeverOverwrites ==
    pc[1] # "down" =>
        /\ \A c \in Colls : snap[1][c] # <<>> => store[c] = snap[1][c]
        /\ Counts(snap[1]) = << 1, 2, 3 >> => Counts(store) = << 1, 2, 3 >>

RestartedOnSeededStore ==
    /\ startups[1] = 2 /\ pc[1] = "ready" /\ failedAt[1] = "none"
    /\ fresh /\ Counts(snap[1]) = << 1, 2, 3 >>
    /\ store = snap[1]

\* C3: without a store handle GET /api/info, /api/owners and /api/events
\* answer 500 "Database not available" and make no store call, and GET /test
\* answers 200 with database "Available but not initialized",
\* connection_status "Not Connected" and no collections.
NoHandleResponses ==
    db = "None" =>
        /\ resp.op \in ContentOps =>
               /\ resp.status = 500
               /\ resp.detail = "Database not available"
               /\ resp.body = <<>>
               /\ resp.calls = 0
        /\ resp.op = "test_database" =>
               /\ resp.status = 200
               /\ resp.calls = 0
               /\ resp.body[1].database.text = "Available but not initialized"
               /\ resp.body[1].connection_status = "Not Connected"
               /\ resp.body[1].collections = <<>>

NoHandleEventsRefused ==
    db = "None" /\ resp.op = "get_events" /\ resp.status = 500

\* C4: a store call of ensure_seed_data that raises, at whichever call,
\* leaves the process ready, and every startup that began reaches ready.
SeedingFailureNeverBlocksStartup ==
    /\ [][\A p \in Procs :
            (failedAt'[p] # failedAt[p] /\ failedAt'[p] # "none") => pc'[p] = "ready"]_vars
    /\ \A p \in Procs : (pc[p] \in SeedingPcs) ~> (pc[p] = "ready")

ReadyAfterFailedEventInsert ==
    /\ failedAt[1] = "event_insert" /\ pc[1] = "ready"
    /\ resp.op = "get_events" /\ resp.status = 200

\* C5: with a handle, GET /api/events answers 200 with every stored event,
\* _id removed, in non-decreasing date order, whatever the stored order.
EventsSortedByDate ==
    [][(resp = NoResp /\ resp'.op = "get_events" /\ db = "handle") =>
          /\ resp'.status = 200
          /\ SameDocs(resp'.body, PopAll(store.event, "_id"))
          /\ \A i \in 1..Len(resp'.body) : \A j \in 1..Len(resp'.body) :
                 i < j => resp'.body[i].date <= resp'.body[j].date]_vars

UnsortedEventsServed ==
    /\ resp.op = "get_events" /\ resp.status = 200
    /\ Len(resp.body) = Len(store.event)
    /\ \E i \in 1..Len(store.event) : \E j \in 1..Len(store.event) :
           i < j /\ store.event[i].date > store.event[j].date

\* C6: with a handle, GET /api/info answers 404 "Info not found" exactly when
\* the info collection is empty, and otherwise 200 with one stored record.
InfoNotFoundIffEmpty ==
    [][(resp = NoResp /\ resp'.op = "get_info" /\ db = "handle") =>
          /\ resp'.status = 404 <=> store.info = <<>>
          /\ resp'.status = 404 => resp'.detail = "Info not found"
          /\ store.info # <<>> =>
                 /\ resp'.status = 200
                 /\ Len(resp'.body) = 1
                 /\ \E i \in 1..Len(store.info) :
                        resp'.body[1] = [k \in DOMAIN store.info[i] \ {"_id"} |->
                                             store.info[i][k]]]_vars

InfoNotFoundServed ==
    /\ db = "handle" /\ store.info = <<>>
    /\ resp.op = "get_info" /\ resp.status = 404

\* C7: GET /test always answers 200 with exactly the keys backend, database,
\* database_url, database_name, connection_status and collections, at most
\* 10 collections, and an error only as text inside database.
DiagnosticNeverFails ==
    resp.op = "test_database" =>
        /\ resp.status = 200
        /\ resp.detail = ""
        /\ Len(resp.body) = 1
        /\ DOMAIN resp.body[1] = {"backend", "database", "database_url", "database_name",
                                  "connection_status", "collections"}
        /\ Len(resp.body[1].collections) <= 10
        /\ Len(resp.body[1].database.err) <= 50
        /\ resp.body[1].database.err # <<>> =>
               /\ resp.body[1].database.text = "Connected but Error"
               /\ resp.body[1].collections = <<>>

DiagnosticTruncated ==
    /\ resp.op = "test_database" /\ db = "handle"
    /\ Len(resp.body[1].collections) = 10
    /\ Counts(store) = << 1, 2, 3 >>

\* C8: no 200 response of GET /api/info, /api/owners or /api/events holds a
\* record with an _id field.
NoInternalIdInResponses ==
    (resp.op \in ContentOps /\ resp.status = 200) =>
        \A i \in 1..Len(resp.body) : "_id" \notin DOMAIN resp.body[i]

OwnersServed ==
    /\ resp.op = "get_owners" /\ resp.status = 200 /\ Len(resp.body) = 2
    /\ \A i \in 1..Len(store.owner) : "_id" \in DOMAIN store.owner[i]

\* C9: on a store that began empty, once a startup has run to its end with
\* no store call raising, after earlier startups that a raising call cut
\* short, the store holds the default info record, both default owners and
\* all three default events.
FailureFreeStartupCompletesDefaults ==
    (fresh /\ db = "handle" /\ pc[1] = "ready" /\ failedAt[1] = "none") =>
        /\ \E i \in 1..Len(store.info) : store.info[i].name = "Kabarett & Impro Wien"
        /\ \A n \in {"Lena Leitner", "Max Maurer"} :
               \E i \in 1..Len(store.owner) : store.owner[i].name = n
        /\ \A t \in {"Kabarett: Wiener Schmaeh", "Improv: Alles kann, nix muss",
                     "Stand-up: Late Night Laughs"} :
               \E i \in 1..Len(store.event) : store.event[i].title = t

\* C10: when server processes start against the same empty store and no
\* store call raises, once all of them are ready the store holds exactly
\* 1 info record, 2 owners and 3 events.
ConcurrentSeedingNeverDuplicates ==
    (fresh /\ db = "handle" /\ noFault /\ \A p \in Procs : pc[p] = "ready") =>
        Counts(store) = << 1, 2, 3 >>

====
